---- MODULE Spec2Model ----
(***************************************************************************)
(* Model of the QR attendance core of nomia:                               *)
(*   - supabase/functions/generate-secure-qr  (token issuance)             *)
(*   - supabase/functions/validate-qr-scan    (token validation and the    *)
(*     attendance state machine)                                           *)
(*   - the scan handlers of the client pages (Employee.tsx, ScanQR.tsx)    *)
(*     and the legacy code generator of Employee.tsx, which write the same *)
(*     two tables directly through the row-level-security policies.        *)
(* Every await of a handler is a step boundary: other requests and the     *)
(* clock may move between two steps of one request.                        *)
(***************************************************************************)
EXTENDS Integers, Sequences, FiniteSets, TLC

VARIABLES now, faultsLeft, qr_codes, legacy, attendance_records, reqs,
          issuance, adminQR

vars == <<now, faultsLeft, qr_codes, legacy, attendance_records, reqs,
         issuance, adminQR>>

(* ------------------------------ bounds -------------------------------- *)
MaxReq    == 3     \* scan requests (edge function or client page) per run
MaxSubmit == 2     \* requests per run when tampered tokens are submitted
MaxLegacy == 1     \* codes minted by Employee.generateQR per run
MaxFaults == 1     \* storage operations that fail per run
MaxIssue  == 2     \* tokens minted per run when any caller may ask for one
MaxOffer  == 1     \* requests per run when any caller may ask for a token
MaxRotate == 3     \* tokens minted per run of the admin page's rotation

(* ----------------------------- constants ------------------------------ *)
VALIDITY_MS == 30 * 1000                 \* generate-secure-qr: 30 * 1000
LEGACY_MS   == 5 * 60 * 1000             \* Employee.generateQR: 5 * 60 * 1000
DayMs       == 24 * 60 * 60 * 1000       \* one ISO calendar day (UTC)
ROTATE_S    == 30                        \* AdminQR: setTimeLeft(30)
TIMER_MS    == 1000                      \* AdminQR: setInterval(..., 1000)
StepMs      == TIMER_MS \div 2            \* the clock's step on the admin page

Users     == {"u1", "u2"}
Location  == "L1"
Admin     == "admin"
\* Callers of the issuance endpoint: the admin who created L1, an admin who
\* created L2 only, and an employee.
Callers   == {Admin, "admin2", "u1"}
\* user_roles.role of a caller.
Role(caller) == IF caller \in {Admin, "admin2"} THEN "admin" ELSE "user"
\* The locations table (ids) and locations.created_by.
Locations == {"L1", "L2"}
Owner(l)  == IF l = "L1" THEN Admin ELSE "admin2"
\* location_id values of a request body: the two locations, the id of no
\* location, a string that is no UUID and holds the field separator, and a
\* missing value.
LocationInputs == {"L1", "L2", "L9", "L|1", ""}
qrSigningSecret == "service-key[0..32)"
AttackerKey     == "guessed-key"

\* The run starts one validity window before midnight of day 0, so that a
\* token minted at StartTime expires at midnight exactly.
StartTime == DayMs - VALIDITY_MS
\* The instants the clock is observed at: the start and one millisecond
\* later, the millisecond before midnight and midnight ...
DayInstants == {StartTime, StartTime + 1, DayMs - 1, DayMs}
\* For a token minted at StartTime (t0): t0, its expiry t, t + 1 ms and
\* t0 + 31 s.
ExpiryInstants == {StartTime, StartTime + VALIDITY_MS,
                   StartTime + VALIDITY_MS + 1, StartTime + 31 * 1000}
\* Two instants more than one validity window apart.
IssueInstants == {StartTime, StartTime + 31 * 1000}

(* ------------------------- pure functions ----------------------------- *)
\* new Date().toISOString().split("T")[0]: the UTC calendar day of an instant.
Today(t) == t \div DayMs
\* `${today}T00:00:00`: first instant of that day.
DayStart(d) == d * DayMs

\* HMAC-SHA256 + base64url of the payload under the secret: an ideal MAC,
\* equal tags only for equal (payload, secret).
signPayload(payload, secret) == [mac |-> payload, key |-> secret]

\* A comparison of the key only, whatever the payload.
verifySignature_KeyOnly(payload, signature, secret) ==
    signature.key = secret

\* validate-qr-scan.verifySignature: recompute the tag and compare.
verifySignature(payload, signature, secret) ==
    signature = signPayload(payload, secret)

\* field.split("|") of a location_id of the model.  A nonce is a UUID, an
\* expiry a decimal number and a tag base64url text: none holds a "|".
Split(field) == IF field = "L|1" THEN <<"L", "1">> ELSE <<field>>

\* The wire string `nomia:nonce|location|expiry|signature` as its prefix
\* and the result of slice(6).split("|").
MkCode(nonce, loc, exp, sig) ==
    [prefix |-> "nomia:", parts |-> <<nonce>> \o Split(loc) \o <<exp, sig>>]
\* No token: useState("") of the admin page, a response without qr_code.
NoCode == [prefix |-> "", parts |-> <<>>]
\* Employee.generateQR: `nomia-${uuid}`; no "|" in it, so one part.
MkLegacy(uuid) == [prefix |-> "nomia-", parts |-> <<uuid>>]

startsWithNomiaColon(code) == code.prefix = "nomia:"
startsWithNomiaDash(code)  == code.prefix = "nomia-"

(* ------------------------------ state --------------------------------- *)
NoRow == [id |-> 0]

\* A request that has not reached a field's assignment holds its default.
NewReq(via, u, c) ==
    [via |-> via, user |-> u, qr_code |-> c, pc |-> "verify", code |-> "",
     qrData |-> NoRow, today |-> -1, entryCount |-> 0, exitCount |-> 0,
     recordType |-> "none", record_type |-> "none", recorded_at |-> -1]

\* The issuance endpoint before its first call: no nonce drawn, no answer.
\* status and qr_code are the HTTP answer, qrCode the handler's local value.
NoIssuance == [minted |-> 0, status |-> 0, qr_code |-> NoCode, qrCode |-> NoCode]
\* The admin page at mount: useState(""), useState(30), useState(false);
\* nextTick is the instant the running interval timer fires next.
NoPage == [qrValue |-> NoCode, timeLeft |-> 30, isGenerating |-> FALSE,
           nextTick |-> -1]

\* Empty tables, no request yet, storage that does not fail.
Init ==
    /\ now = StartTime
    /\ faultsLeft = 0
    /\ qr_codes = {}
    /\ legacy = {}
    /\ attendance_records = <<>>
    /\ reqs = <<>>
    /\ issuance = NoIssuance
    /\ adminQR = NoPage

\* The same, with storage that fails up to MaxFaults calls.
InitFaulty ==
    /\ now = StartTime
    /\ faultsLeft = MaxFaults
    /\ qr_codes = {}
    /\ legacy = {}
    /\ attendance_records = <<>>
    /\ reqs = <<>>
    /\ issuance = NoIssuance
    /\ adminQR = NoPage

\* The clock of the runtime moves on (Date.now() / new Date()).
Tick(I) ==
    /\ \E t \in I : t > now /\ now' = t
    /\ UNCHANGED <<faultsLeft, qr_codes, legacy, attendance_records, reqs,
                   issuance, adminQR>>

\* A storage call may fail (network, database); at most MaxFaults fail.
MayFail == faultsLeft > 0

(* ----------------------- generate-secure-qr --------------------------- *)
IssuedRows == {r \in qr_codes : startsWithNomiaColon(r.code)}

\* An answer that carries the handler's token whatever the insert did.
Respond_AlwaysToken(status, qr_code, qrCode, drew) ==
    issuance' = [minted |-> issuance.minted + drew, status |-> status,
                 qr_code |-> qrCode, qrCode |-> qrCode]

\* The handler answers: its HTTP status, the qr_code of the body (NoCode in
\* an error body), its local qrCode, and whether it drew a nonce.
Respond(status, qr_code, qrCode, drew) ==
    issuance' = [minted |-> issuance.minted + drew, status |-> status,
                 qr_code |-> qr_code, qrCode |-> qrCode]

\* Deno.serve handler of generate-secure-qr: role check, location_id,
\* mint, sign, insert; the token is returned only when the insert succeeded.
\* The insert fails on a location_id that is no id of the locations table
\* (column type UUID REFERENCES locations) and on a storage failure.
GenerateSecureQrFor(caller, location_id) ==
    /\ IF Role(caller) # "admin"
       THEN /\ Respond(403, NoCode, NoCode, 0)
            /\ UNCHANGED <<faultsLeft, qr_codes>>
       ELSE IF location_id = ""
       THEN /\ Respond(400, NoCode, NoCode, 0)
            /\ UNCHANGED <<faultsLeft, qr_codes>>
       ELSE
         LET expiresAt == now + VALIDITY_MS
             nonce     == issuance.minted + 1            \* crypto.randomUUID()
             payload   == <<nonce, location_id, expiresAt>>
             signature == signPayload(payload, qrSigningSecret)
             qrCode    == MkCode(nonce, location_id, expiresAt, signature)
         IN  \/ /\ location_id \in Locations
                /\ qr_codes' = qr_codes \cup
                       {[id |-> nonce, code |-> qrCode,
                         location_id |-> location_id,
                         expires_at |-> expiresAt, created_by |-> caller]}
                /\ Respond(200, qrCode, qrCode, 1)
                /\ UNCHANGED faultsLeft
             \/ /\ location_id \notin Locations         \* insertError
                /\ Respond(500, NoCode, qrCode, 1)
                /\ UNCHANGED <<faultsLeft, qr_codes>>
             \/ /\ MayFail                               \* insertError
                /\ faultsLeft' = faultsLeft - 1
                /\ Respond(500, NoCode, qrCode, 1)
                /\ UNCHANGED qr_codes
    /\ UNCHANGED <<now, legacy, attendance_records, reqs, adminQR>>

\* The call of the admin page of location L1 (AdminQR.generateSecureQR).
GenerateSecureQr == GenerateSecureQrFor(Admin, Location)

(* ------------------------------ AdminQR ------------------------------- *)
\* generateSecureQR up to its await: setIsGenerating(true) and the request
\* to generate-secure-qr is on its way (no answer yet).
Invoke(page) ==
    /\ adminQR' = [page EXCEPT !.isGenerating = TRUE]
    /\ issuance' = [issuance EXCEPT !.status = 0, !.qr_code = NoCode]

\* initializeLocation at mount: the first call of generateSecureQR.
InitializeLocation ==
    /\ adminQR = NoPage /\ issuance = NoIssuance
    /\ Invoke(adminQR)
    /\ UNCHANGED <<now, faultsLeft, qr_codes, legacy, attendance_records, reqs>>

\* The answer arrives: on success setQrValue and setTimeLeft(30), and the
\* timer effect, which depends on qrValue, starts a new interval; on an
\* error only the toast.  Then setIsGenerating(false).
AdminReceive ==
    /\ adminQR.isGenerating /\ issuance.status # 0
    /\ adminQR' =
          IF issuance.status = 200 /\ issuance.qr_code # NoCode
          THEN [qrValue |-> issuance.qr_code, timeLeft |-> ROTATE_S,
                isGenerating |-> FALSE, nextTick |-> now + TIMER_MS]
          ELSE [adminQR EXCEPT !.isGenerating = FALSE]
    /\ UNCHANGED <<now, faultsLeft, qr_codes, legacy, attendance_records, reqs,
                   issuance>>

\* The interval fires: prev <= 1 calls generateSecureQR and shows 30 again,
\* otherwise the countdown goes down by one.
TimerTick ==
    /\ adminQR.qrValue # NoCode /\ now = adminQR.nextTick
    /\ IF adminQR.timeLeft <= 1
       THEN Invoke([adminQR EXCEPT !.timeLeft = ROTATE_S,
                                   !.nextTick = now + TIMER_MS])
       ELSE /\ adminQR' = [adminQR EXCEPT !.timeLeft = adminQR.timeLeft - 1,
                                          !.nextTick = now + TIMER_MS]
            /\ UNCHANGED issuance
    /\ UNCHANGED <<now, faultsLeft, qr_codes, legacy, attendance_records, reqs>>

\* The clock on the admin page: the interval fires on time (the clock does
\* not pass nextTick), and a call is answered within one timer period.
PageTick ==
    /\ IF adminQR.qrValue = NoCode THEN now + StepMs <= StartTime + TIMER_MS
       ELSE now + StepMs <= adminQR.nextTick
    /\ adminQR.isGenerating => adminQR.timeLeft = ROTATE_S
    /\ Tick({now + StepMs})

(* ---------------------- Employee.generateQR --------------------------- *)
\* The admin page of Employee.tsx shows `nomia-${uuid}` and then tries to
\* store it with a five minute expiry; a failed insert is only logged.
GenerateQR ==
    /\ Cardinality(legacy) < MaxLegacy
    /\ LET uuid    == 100 + Cardinality(legacy) + 1      \* crypto.randomUUID()
           newCode == MkLegacy(uuid)
       IN  /\ legacy' = legacy \cup {newCode}
           /\ \/ /\ qr_codes' = qr_codes \cup
                        {[id |-> uuid, code |-> newCode, location_id |-> Location,
                          expires_at |-> now + LEGACY_MS, created_by |-> Admin]}
                 /\ UNCHANGED faultsLeft
              \/ /\ MayFail
                 /\ faultsLeft' = faultsLeft - 1
                 /\ UNCHANGED qr_codes
    /\ UNCHANGED <<now, attendance_records, reqs, issuance, adminQR>>

(* ------------------------- request plumbing --------------------------- *)
Finish(i, c) == reqs' = [reqs EXCEPT ![i].pc = "done", ![i].code = c]

\* A lookup that only returns the newest row of the token store.
LiveRows_NewestOnly(c, t) ==
    {r \in qr_codes :
        /\ r.code = c /\ r.expires_at > t
        /\ \A o \in qr_codes : o.id <= r.id}

\* A lookup that skips the rows an attendance record already points to.
LiveRows_Unredeemed(c, t) ==
    {r \in qr_codes :
        /\ r.code = c /\ r.expires_at > t
        /\ \A k \in DOMAIN attendance_records :
              attendance_records[k].qr_code_id # r.id}

\* The lookup without its .eq("code", c) filter.
LiveRows_AnyCode(c, t) == {r \in qr_codes : r.expires_at > t}

\* .from("qr_codes").select().eq("code", c).gt("expires_at", t).maybeSingle()
\* (code is UNIQUE, so at most one row matches).
LiveRows(c, t) == {r \in qr_codes : r.code = c /\ r.expires_at > t}

\* The query without its .gte("recorded_at", start) filter.
TodayRecords_AllTime(u, start) ==
    {k \in DOMAIN attendance_records : attendance_records[k].user_id = u}

\* The query without its .eq("user_id", u) filter.
TodayRecords_AnyUser(u, start) ==
    {k \in DOMAIN attendance_records :
        attendance_records[k].recorded_at >= start}

\* .from("attendance_records").eq("user_id", u).gte("recorded_at", start):
\* the positions of the matching rows.
TodayRecords(u, start) ==
    {k \in DOMAIN attendance_records :
        /\ attendance_records[k].user_id = u
        /\ attendance_records[k].recorded_at >= start}

CountType(K, t) ==
    Cardinality({k \in K : attendance_records[k].record_type = t})

\* .order("recorded_at"): the rows that may come last in recorded_at order;
\* the order of rows with equal recorded_at is the database's choice.
LastCandidates(K) ==
    {k \in K : \A j \in K :
        attendance_records[j].recorded_at <= attendance_records[k].recorded_at}

\* The decision with the comparison on the wrong record type.
NextType_Flipped(lastRecord) ==
    IF lastRecord = "none" \/ lastRecord = "entrada" THEN "entrada" ELSE "salida"

\* !lastRecord || lastRecord.record_type === "salida" ? "entrada" : "salida"
NextType(lastRecord) ==
    IF lastRecord = "none" \/ lastRecord = "salida" THEN "entrada" ELSE "salida"

\* The daily limits with "> 1" for ">= 1".
LimitCode_OffByOne(recordType, entryCount, exitCount) ==
    IF recordType = "entrada" /\ entryCount > 1 THEN "ENTRY_LIMIT"
    ELSE IF recordType = "salida" /\ exitCount > 1 THEN "EXIT_LIMIT"
    ELSE ""

\* The daily limits of validate-qr-scan and ScanQR.tsx: "" when none applies.
LimitCode(recordType, entryCount, exitCount) ==
    IF recordType = "entrada" /\ entryCount >= 1 THEN "ENTRY_LIMIT"
    ELSE IF recordType = "salida" /\ exitCount >= 1 THEN "EXIT_LIMIT"
    ELSE ""

NewRecord(i, t) ==
    [user_id |-> reqs[i].user, location_id |-> reqs[i].qrData.location_id,
     qr_code_id |-> reqs[i].qrData.id, record_type |-> reqs[i].recordType,
     recorded_at |-> t, req |-> i]

(* -------------------------- validate-qr-scan -------------------------- *)
\* The checks without the signature check.
VerifyCode_NoSignature(c, t) ==
    IF ~startsWithNomiaColon(c) THEN "INVALID_FORMAT"
    ELSE IF Len(c.parts) # 4 THEN "INVALID_STRUCTURE"
    ELSE IF t > c.parts[3] THEN "QR_EXPIRED"
    ELSE ""

\* The checks with the expiry check moved before the signature check.
VerifyCode_ExpiryFirst(c, t) ==
    IF ~startsWithNomiaColon(c) THEN "INVALID_FORMAT"
    ELSE IF Len(c.parts) # 4 THEN "INVALID_STRUCTURE"
    ELSE IF t > c.parts[3] THEN "QR_EXPIRED"
    ELSE IF ~verifySignature(<<c.parts[1], c.parts[2], c.parts[3]>>,
                             c.parts[4], qrSigningSecret)
         THEN "INVALID_SIGNATURE"
    ELSE ""

\* The checks with one second of grace after the expiry.
VerifyCode_Grace(c, t) ==
    IF ~startsWithNomiaColon(c) THEN "INVALID_FORMAT"
    ELSE IF Len(c.parts) # 4 THEN "INVALID_STRUCTURE"
    ELSE IF ~verifySignature(<<c.parts[1], c.parts[2], c.parts[3]>>,
                             c.parts[4], qrSigningSecret)
         THEN "INVALID_SIGNATURE"
    ELSE IF t > c.parts[3] + 1000 THEN "QR_EXPIRED"
    ELSE ""

\* Lines 83-134: prefix, field count, signature, then the expiry check
\* against Date.now(); the first failing check answers the request.
VerifyCode(c, t) ==
    IF ~startsWithNomiaColon(c) THEN "INVALID_FORMAT"
    ELSE IF Len(c.parts) # 4 THEN "INVALID_STRUCTURE"
    ELSE IF ~verifySignature(<<c.parts[1], c.parts[2], c.parts[3]>>,
                             c.parts[4], qrSigningSecret)
         THEN "INVALID_SIGNATURE"
    ELSE IF t > c.parts[3] THEN "QR_EXPIRED"
    ELSE ""

\* An authenticated user posts qr_code c; runs up to the qr_codes lookup.
EdgeVerify(u, c) ==
    /\ Len(reqs) < MaxReq
    /\ LET r    == NewReq("edge", u, c)
           code == VerifyCode(c, now)
       IN  reqs' = Append(reqs,
                 IF code # "" THEN [r EXCEPT !.pc = "done", !.code = code]
                 ELSE [r EXCEPT !.pc = "lookup"])
    /\ UNCHANGED <<now, faultsLeft, qr_codes, legacy, attendance_records,
                   issuance, adminQR>>

\* Lines 136-153: the row must exist with expires_at > new Date().
EdgeLookup(i) ==
    /\ reqs[i].via = "edge" /\ reqs[i].pc = "lookup"
    /\ \/ /\ MayFail                                     \* qrError
          /\ faultsLeft' = faultsLeft - 1
          /\ Finish(i, "QR_NOT_FOUND")
       \/ /\ UNCHANGED faultsLeft
          /\ LET rows == LiveRows(reqs[i].qr_code, now)
             IN  IF rows = {} THEN Finish(i, "QR_NOT_FOUND")
                 ELSE \E row \in rows :
                        reqs' = [reqs EXCEPT ![i].pc = "read",
                                             ![i].qrData = row]
    /\ UNCHANGED <<now, qr_codes, legacy, attendance_records, issuance, adminQR>>

\* Lines 155-203: read today's records, count, decide, check the limits.
EdgeReadRecords(i) ==
    /\ reqs[i].via = "edge" /\ reqs[i].pc = "read"
    /\ \/ /\ MayFail                                     \* recordsError
          /\ faultsLeft' = faultsLeft - 1
          /\ Finish(i, "DB_ERROR")
       \/ /\ UNCHANGED faultsLeft
          /\ LET today        == Today(now)
                 todayRecords == TodayRecords(reqs[i].user, DayStart(today))
                 entryCount   == CountType(todayRecords, "entrada")
                 exitCount    == CountType(todayRecords, "salida")
             IN  \E lastRecord \in
                      IF todayRecords = {} THEN {"none"}
                      ELSE {attendance_records[k].record_type :
                                k \in LastCandidates(todayRecords)} :
                   LET recordType == NextType(lastRecord)
                       limit      == LimitCode(recordType, entryCount, exitCount)
                       seen == [reqs[i] EXCEPT
                                  !.today = today,
                                  !.entryCount = entryCount,
                                  !.exitCount = exitCount,
                                  !.recordType = recordType]
                   IN  reqs' = [reqs EXCEPT ![i] =
                          IF limit # ""
                          THEN [seen EXCEPT !.pc = "done", !.code = limit]
                          ELSE [seen EXCEPT !.pc = "insert"]]
    /\ UNCHANGED <<now, qr_codes, legacy, attendance_records, issuance, adminQR>>

\* The success body of lines 229-237: record_type: recordType and
\* recorded_at: new Date(), read at clock value t.
Answer(i, t) ==
    reqs' = [reqs EXCEPT ![i].pc = "done", ![i].code = "OK",
                         ![i].record_type = reqs[i].recordType,
                         ![i].recorded_at = t]

\* An upsert: the user's latest event is overwritten when there is one.
EdgeInsert_Upsert(i) ==
    /\ reqs[i].via = "edge" /\ reqs[i].pc = "insert"
    /\ \/ /\ MayFail
          /\ faultsLeft' = faultsLeft - 1
          /\ Finish(i, "INSERT_ERROR")
          /\ UNCHANGED attendance_records
       \/ /\ UNCHANGED faultsLeft
          /\ LET K == {k \in DOMAIN attendance_records :
                         attendance_records[k].user_id = reqs[i].user}
             IN  attendance_records' =
                   IF K = {} THEN Append(attendance_records, NewRecord(i, now))
                   ELSE [attendance_records EXCEPT
                           ![CHOOSE k \in K : \A j \in K : j <= k] =
                               NewRecord(i, now)]
          /\ Answer(i, now)
    /\ UNCHANGED <<now, qr_codes, legacy, issuance, adminQR>>

\* An insert whose row is stored although the call reports an error.
EdgeInsert_WritesOnError(i) ==
    /\ reqs[i].via = "edge" /\ reqs[i].pc = "insert"
    /\ attendance_records' = Append(attendance_records, NewRecord(i, now))
    /\ \/ /\ MayFail
          /\ faultsLeft' = faultsLeft - 1
          /\ Finish(i, "INSERT_ERROR")
       \/ /\ UNCHANGED faultsLeft
          /\ Answer(i, now)
    /\ UNCHANGED <<now, qr_codes, legacy, issuance, adminQR>>

\* Lines 205-237 when the awaited insert returns within the clock value it
\* was sent at: insert with recorded_at = new Date(), then answer.
EdgeInsert(i) ==
    /\ reqs[i].via = "edge" /\ reqs[i].pc = "insert"
    /\ \/ /\ MayFail                                     \* insertError
          /\ faultsLeft' = faultsLeft - 1
          /\ Finish(i, "INSERT_ERROR")
          /\ UNCHANGED attendance_records
       \/ /\ UNCHANGED faultsLeft
          /\ attendance_records' = Append(attendance_records, NewRecord(i, now))
          /\ Answer(i, now)
    /\ UNCHANGED <<now, qr_codes, legacy, issuance, adminQR>>

\* Lines 205-225 alone: the insert with recorded_at = new Date(); the
\* handler then waits for the insert to return.
EdgeCommit(i) ==
    /\ reqs[i].via = "edge" /\ reqs[i].pc = "insert"
    /\ \/ /\ MayFail                                     \* insertError
          /\ faultsLeft' = faultsLeft - 1
          /\ Finish(i, "INSERT_ERROR")
          /\ UNCHANGED attendance_records
       \/ /\ UNCHANGED faultsLeft
          /\ attendance_records' = Append(attendance_records, NewRecord(i, now))
          /\ reqs' = [reqs EXCEPT ![i].pc = "respond"]
    /\ UNCHANGED <<now, qr_codes, legacy, issuance, adminQR>>

\* Lines 227-237 alone: the insert has returned; the success body is built
\* with the clock value of that moment.
EdgeRespond(i) ==
    /\ reqs[i].via = "edge" /\ reqs[i].pc = "respond"
    /\ Answer(i, now)
    /\ UNCHANGED <<now, faultsLeft, qr_codes, legacy, attendance_records,
                   issuance, adminQR>>

(* ------------- Employee.tsx / ScanQR.tsx handleScanSuccess ------------ *)
\* Both pages write attendance_records themselves, under the policy
\* "Authenticated users can insert own attendance" (auth.uid() = user_id).
Pages == {"Employee", "ScanQR"}

\* The format gate of both pages: result.startsWith("nomia-").
PageScan(page, u, c) ==
    /\ Len(reqs) < MaxReq
    /\ LET r == NewReq(page, u, c)
       IN  reqs' = Append(reqs,
                 IF ~startsWithNomiaDash(c)
                 THEN [r EXCEPT !.pc = "done", !.code = "INVALID_FORMAT"]
                 ELSE [r EXCEPT !.pc = "lookup"])
    /\ UNCHANGED <<now, faultsLeft, qr_codes, legacy, attendance_records,
                   issuance, adminQR>>

\* qr_codes lookup with expires_at > new Date(); ScanQR reports qrError,
\* Employee only sees the missing row.
PageLookup(i) ==
    /\ reqs[i].via \in Pages /\ reqs[i].pc = "lookup"
    /\ \/ /\ MayFail
          /\ faultsLeft' = faultsLeft - 1
          /\ Finish(i, IF reqs[i].via = "ScanQR" THEN "QR_VALIDATION_ERROR"
                       ELSE "QR_NOT_FOUND_OR_EXPIRED")
       \/ /\ UNCHANGED faultsLeft
          /\ LET rows == LiveRows(reqs[i].qr_code, now)
             IN  IF rows = {} THEN Finish(i, "QR_NOT_FOUND_OR_EXPIRED")
                 ELSE \E row \in rows :
                        reqs' = [reqs EXCEPT ![i].pc = "read",
                                             ![i].qrData = row]
    /\ UNCHANGED <<now, qr_codes, legacy, attendance_records, issuance, adminQR>>

\* ScanQR reads the day's records and applies the limits; Employee reads
\* only the latest record, applies no limit and ignores a read error
\* (todayRecords is then undefined and the scan counts as "entrada").
PageReadRecords(i) ==
    /\ reqs[i].via \in Pages /\ reqs[i].pc = "read"
    /\ LET today        == Today(now)
           todayRecords == TodayRecords(reqs[i].user, DayStart(today))
           entryCount   == CountType(todayRecords, "entrada")
           exitCount    == CountType(todayRecords, "salida")
           Decide(lastRecord) ==
               LET recordType == NextType(lastRecord)
                   limit == IF reqs[i].via = "ScanQR"
                            THEN LimitCode(recordType, entryCount, exitCount)
                            ELSE ""
                   seen == [reqs[i] EXCEPT
                              !.today = today,
                              !.entryCount = entryCount,
                              !.exitCount = exitCount,
                              !.recordType = recordType]
               IN  IF limit # ""
                   THEN [seen EXCEPT !.pc = "done", !.code = limit \o "_EXCEEDED"]
                   ELSE [seen EXCEPT !.pc = "insert"]
       IN  \/ /\ MayFail
              /\ faultsLeft' = faultsLeft - 1
              /\ IF reqs[i].via = "ScanQR"
                 THEN Finish(i, "RECORDS_QUERY_ERROR")
                 ELSE reqs' = [reqs EXCEPT ![i] =
                                 [reqs[i] EXCEPT !.pc = "insert",
                                                 !.today = today,
                                                 !.recordType = "entrada"]]
           \/ /\ UNCHANGED faultsLeft
              /\ \E lastRecord \in
                      IF todayRecords = {} THEN {"none"}
                      ELSE {attendance_records[k].record_type :
                                k \in LastCandidates(todayRecords)} :
                   reqs' = [reqs EXCEPT ![i] = Decide(lastRecord)]
    /\ UNCHANGED <<now, qr_codes, legacy, attendance_records, issuance, adminQR>>

\* The page's own insert with recorded_at = new Date().
PageInsert(i) ==
    /\ reqs[i].via \in Pages /\ reqs[i].pc = "insert"
    /\ \/ /\ MayFail
          /\ faultsLeft' = faultsLeft - 1
          /\ Finish(i, "INSERT_ERROR")
          /\ UNCHANGED attendance_records
       \/ /\ UNCHANGED faultsLeft
          /\ attendance_records' = Append(attendance_records, NewRecord(i, now))
          /\ Finish(i, "OK")
    /\ UNCHANGED <<now, qr_codes, legacy, issuance, adminQR>>

(* --------------------------- specification ---------------------------- *)
\* What a scanner can hold: a code that was stored or displayed.
Displayed == {r.code : r \in qr_codes} \cup legacy

\* Strings an attacker can derive from a displayed four-field token: the
\* tag of a guessed key, a later expiry under the old tag, a later expiry
\* re-signed with the real secret (never stored), a dropped field, and the
\* other prefix.
Tampered(c) ==
    IF Len(c.parts) # 4 THEN {}
    ELSE LET n == c.parts[1]
             l == c.parts[2]
             e == c.parts[3]
         IN  { [c EXCEPT !.parts[4] = signPayload(<<n, l, e>>, AttackerKey)],
               [c EXCEPT !.parts[3] = e + VALIDITY_MS],
               MkCode(n, l, e + 1, signPayload(<<n, l, e + 1>>, qrSigningSecret)),
               [c EXCEPT !.parts = SubSeq(c.parts, 1, 3)],
               [c EXCEPT !.prefix = "nomia-"] }

Submitted == Displayed \cup UNION {Tampered(c) : c \in Displayed}

\* No issued token is live: the displayed one, if any, has run out.
\* The admin page asks for the next token then (AdminQR.tsx, timeLeft).
NoLiveToken == \A r \in IssuedRows : r.expires_at <= now

\* The validation endpoint under concurrent requests of two users.
Next ==
    \/ Tick(DayInstants)
    \/ NoLiveToken /\ GenerateSecureQr
    \/ \E u \in Users, c \in Displayed : EdgeVerify(u, c)
    \/ \E i \in DOMAIN reqs : EdgeLookup(i)
    \/ \E i \in DOMAIN reqs : EdgeReadRecords(i)
    \/ \E i \in DOMAIN reqs : EdgeInsert(i)

Spec == Init /\ [][Next]_vars

\* The validation endpoint under concurrent requests of one user, with
\* storage calls that may fail.
NextFaulty ==
    \/ Tick(DayInstants)
    \/ NoLiveToken /\ GenerateSecureQr
    \/ \E c \in Displayed : EdgeVerify("u1", c)
    \/ \E i \in DOMAIN reqs : EdgeLookup(i)
    \/ \E i \in DOMAIN reqs : EdgeReadRecords(i)
    \/ \E i \in DOMAIN reqs : EdgeInsert(i)

SpecFaulty == InitFaulty /\ [][NextFaulty]_vars

\* The validation endpoint fed with tampered tokens by one user, with
\* storage calls that may fail.
NextTokens ==
    \/ Tick(ExpiryInstants)
    \/ NoLiveToken /\ GenerateSecureQr
    \/ \E c \in Submitted : Len(reqs) < MaxSubmit /\ EdgeVerify("u1", c)
    \/ \E i \in DOMAIN reqs : EdgeLookup(i)
    \/ \E i \in DOMAIN reqs : EdgeReadRecords(i)
    \/ \E i \in DOMAIN reqs : EdgeInsert(i)

SpecTokens == InitFaulty /\ [][NextTokens]_vars

\* Strings obtained from a four-field token by changing one field: the
\* nonce, the location id, the expiry, or the signature (the tag of a
\* guessed key, or the real tag of another payload).
Altered(c) ==
    IF Len(c.parts) # 4 THEN {}
    ELSE LET n == c.parts[1]
             l == c.parts[2]
             e == c.parts[3]
         IN  { [c EXCEPT !.parts[1] = n + 1],
               [c EXCEPT !.parts[2] = IF l = "L1" THEN "L2" ELSE "L1"],
               [c EXCEPT !.parts[3] = e + VALIDITY_MS],
               [c EXCEPT !.parts[4] = signPayload(<<n, l, e>>, AttackerKey)],
               [c EXCEPT !.parts[4] = signPayload(<<n + 1, l, e>>,
                                                  qrSigningSecret)] }

\* What is submitted to validation next to the stored tokens: the token of
\* the endpoint's last call, stored or not, and the altered tokens.
Offered ==
    Displayed \cup (IF issuance.qrCode = NoCode THEN {} ELSE {issuance.qrCode})
              \cup UNION {Altered(c) : c \in Displayed}

\* No request is in flight.
AllDone == \A i \in DOMAIN reqs : reqs[i].pc = "done"

\* The issuance endpoint called by every caller for every location_id, and
\* the validation endpoint fed, one request at a time, with what it minted.
NextIssuance ==
    \/ Tick(IssueInstants)
    \/ \E caller \in Callers, location_id \in LocationInputs :
          issuance.minted < MaxIssue /\ GenerateSecureQrFor(caller, location_id)
    \/ \E c \in Offered :
          Len(reqs) < MaxOffer /\ AllDone /\ EdgeVerify("u1", c)
    \/ \E i \in DOMAIN reqs : EdgeLookup(i)
    \/ \E i \in DOMAIN reqs : EdgeReadRecords(i)
    \/ \E i \in DOMAIN reqs : EdgeInsert(i)

SpecIssuance == InitFaulty /\ [][NextIssuance]_vars

\* The admin page of location L1 rotating its token.
NextRotation ==
    \/ PageTick
    \/ InitializeLocation
    \/ adminQR.isGenerating /\ issuance.status = 0
           /\ issuance.minted < MaxRotate /\ GenerateSecureQr
    \/ AdminReceive
    \/ TimerTick

SpecRotation == Init /\ [][NextRotation]_vars

\* The same page with issuance calls that may fail; the browser runs every
\* timer and every answer that is due.
SpecRetry == InitFaulty /\ [][NextRotation]_vars /\ WF_vars(NextRotation)

\* One user's requests with the clock moving while an insert is awaited.
NextResponse ==
    \/ Tick(DayInstants)
    \/ NoLiveToken /\ GenerateSecureQr
    \/ \E c \in Displayed : EdgeVerify("u1", c)
    \/ \E i \in DOMAIN reqs : EdgeLookup(i)
    \/ \E i \in DOMAIN reqs : EdgeReadRecords(i)
    \/ \E i \in DOMAIN reqs : EdgeCommit(i)
    \/ \E i \in DOMAIN reqs : EdgeRespond(i)

SpecResponse == Init /\ [][NextResponse]_vars

\* Every action of the program that touches attendance_records, with
\* requests served one at a time and storage calls that may fail.
NextAudit ==
    \/ Tick(IssueInstants)
    \/ NoLiveToken /\ GenerateSecureQr
    \/ GenerateQR
    \/ \E c \in Displayed :
          Len(reqs) < MaxSubmit /\ AllDone /\ EdgeVerify("u1", c)
    \/ \E i \in DOMAIN reqs : EdgeLookup(i)
    \/ \E i \in DOMAIN reqs : EdgeReadRecords(i)
    \/ \E i \in DOMAIN reqs : EdgeInsert(i)
    \/ \E p \in Pages, c \in Displayed :
          Len(reqs) < MaxSubmit /\ AllDone /\ PageScan(p, "u1", c)
    \/ \E i \in DOMAIN reqs : PageLookup(i)
    \/ \E i \in DOMAIN reqs : PageReadRecords(i)
    \/ \E i \in DOMAIN reqs : PageInsert(i)

SpecAudit == InitFaulty /\ [][NextAudit]_vars

\* Every writer of attendance_records: the endpoint and the two pages.
NextWriters ==
    \/ Tick(DayInstants)
    \/ NoLiveToken /\ GenerateSecureQr
    \/ GenerateQR
    \/ \E c \in Displayed : EdgeVerify("u1", c)
    \/ \E i \in DOMAIN reqs : EdgeLookup(i)
    \/ \E i \in DOMAIN reqs : EdgeReadRecords(i)
    \/ \E i \in DOMAIN reqs : EdgeInsert(i)
    \/ \E p \in Pages, c \in Displayed : PageScan(p, "u1", c)
    \/ \E i \in DOMAIN reqs : PageLookup(i)
    \/ \E i \in DOMAIN reqs : PageReadRecords(i)
    \/ \E i \in DOMAIN reqs : PageInsert(i)

SpecWriters == Init /\ [][NextWriters]_vars

(* ======================= properties of the claims ===================== *)
Days == {Today(t) : t \in DayInstants \cup ExpiryInstants}
Rows == DOMAIN attendance_records
RowDay(k) == Today(attendance_records[k].recorded_at)
RowsBy(i) == {k \in Rows : attendance_records[k].req = i}
EdgeReqs == {i \in DOMAIN reqs : reqs[i].via = "edge"}
EdgeRows == {k \in Rows : attendance_records[k].req \in EdgeReqs}
\* Rows of user u recorded on calendar day d with record_type t.
DayRows(u, d, t) ==
    {k \in Rows : /\ attendance_records[k].user_id = u
                  /\ RowDay(k) = d
                  /\ attendance_records[k].record_type = t}
\* Request i has read the day's records.
HasRead(i) == reqs[i].today # -1
\* This step is request i leaving program point p without a storage fault.
Leaves(i, p) ==
    /\ reqs[i].pc = p /\ reqs'[i].pc # p
    /\ faultsLeft' = faultsLeft
\* This step is the arrival of a request.
Arrives == Len(reqs') = Len(reqs) + 1
Arrived == reqs'[Len(reqs')]

\* C1: among the events inserted by the validation endpoint there is, for
\* every user and calendar day, at most one 'entrada' and at most one
\* 'salida', in every reachable state.
C1_Cardinality ==
    \A u \in Users, d \in Days, t \in {"entrada", "salida"} :
        Cardinality(DayRows(u, d, t) \cap EdgeRows) <= 1

\* C2: when two requests of one user both read an empty day (neither saw
\* the other's event) and neither insert failed in storage, exactly one of
\* them ends with success and the other ends with ENTRY_LIMIT.
C2_BenignRace ==
    \A i, j \in EdgeReqs :
        ( /\ i # j
          /\ reqs[i].user = reqs[j].user
          /\ reqs[i].pc = "done" /\ reqs[j].pc = "done"
          /\ HasRead(i) /\ HasRead(j)
          /\ reqs[i].today = reqs[j].today
          /\ reqs[i].entryCount + reqs[i].exitCount = 0
          /\ reqs[j].entryCount + reqs[j].exitCount = 0
          /\ reqs[i].code # "INSERT_ERROR" /\ reqs[j].code # "INSERT_ERROR" )
        => \/ reqs[i].code = "OK" /\ reqs[j].code = "ENTRY_LIMIT"
           \/ reqs[j].code = "OK" /\ reqs[i].code = "ENTRY_LIMIT"

\* C3: every attendance event in the store was inserted by the validation
\* endpoint; no page or other action inserts one.
C3_SingleWriter == \A k \in Rows : attendance_records[k].req \in EdgeReqs

\* C4: a 'salida' is never the first committed event of its calendar day
\* for its user: an 'entrada' of the same user and day was committed before.
C4_Ordering ==
    \A k \in Rows :
        attendance_records[k].record_type = "salida" =>
            \E j \in Rows :
                /\ j < k
                /\ attendance_records[j].user_id = attendance_records[k].user_id
                /\ attendance_records[j].record_type = "entrada"
                /\ RowDay(j) = RowDay(k)

\* C5 as stated: a request that found exactly one 'entrada' and no
\* 'salida' of its user today ends with ENTRY_LIMIT and commits nothing.
C5_Original ==
    \A i \in EdgeReqs :
        ( /\ HasRead(i) /\ reqs[i].pc = "done"
          /\ reqs[i].entryCount = 1 /\ reqs[i].exitCount = 0 )
        => reqs[i].code = "ENTRY_LIMIT" /\ RowsBy(i) = {}

\* The user of request i has, from the start of today on, at least one
\* 'entrada' and no 'salida' in the store.
OnlyEntradaToday(i) ==
    LET K == {k \in Rows : /\ attendance_records[k].user_id = reqs[i].user
                           /\ attendance_records[k].recorded_at
                                  >= DayStart(Today(now))}
    IN  /\ K # {}
        /\ \A k \in K : attendance_records[k].record_type = "entrada"

\* C5 (amended): a request that reads the day's records while its user has
\* an 'entrada' and no 'salida' today is not rejected by a limit: it decides
\* 'salida' and goes on to the insert; and every request that ends with
\* success has committed exactly one event, of the kind it decided.
C5_SecondScanIsSalida ==
    /\ [][\A i \in EdgeReqs :
            (Leaves(i, "read") /\ OnlyEntradaToday(i)) =>
                /\ reqs'[i].pc = "insert"
                /\ reqs'[i].recordType = "salida"]_vars
    /\ [](\A i \in EdgeReqs :
            reqs[i].code = "OK" =>
                /\ Cardinality(RowsBy(i)) = 1
                /\ \A k \in RowsBy(i) :
                     /\ attendance_records[k].record_type = reqs[i].recordType
                     /\ attendance_records[k].user_id = reqs[i].user)

C5_Witness ==
    \E i \in EdgeReqs :
        /\ reqs[i].code = "OK" /\ reqs[i].recordType = "salida"
        /\ reqs[i].entryCount = 1 /\ reqs[i].exitCount = 0
        /\ \E k \in RowsBy(i) : attendance_records[k].record_type = "salida"

\* C6 as stated: a request that found one 'entrada' and one 'salida' of its
\* user today ends with EXIT_LIMIT.
C6_Original ==
    \A i \in EdgeReqs :
        ( /\ HasRead(i) /\ reqs[i].pc = "done"
          /\ reqs[i].entryCount = 1 /\ reqs[i].exitCount = 1 )
        => reqs[i].code = "EXIT_LIMIT"

\* The user of request i has, from the start of today on, exactly one
\* 'entrada' and one 'salida' in the store, the 'salida' recorded later.
EntradaThenSalidaToday(i) ==
    LET K == {k \in Rows : /\ attendance_records[k].user_id = reqs[i].user
                           /\ attendance_records[k].recorded_at
                                  >= DayStart(Today(now))}
    IN  /\ Cardinality(K) = 2
        /\ \E e, x \in K :
             /\ attendance_records[e].record_type = "entrada"
             /\ attendance_records[x].record_type = "salida"
             /\ attendance_records[e].recorded_at
                    < attendance_records[x].recorded_at

\* C6 (amended): a request that reads the day's records after its user's
\* 'entrada' and later 'salida' of today is rejected with ENTRY_LIMIT, and
\* a request rejected by a daily limit has committed no event.
C6_ThirdScanEntryLimit ==
    /\ [][\A i \in EdgeReqs :
            (Leaves(i, "read") /\ EntradaThenSalidaToday(i)) =>
                /\ reqs'[i].pc = "done"
                /\ reqs'[i].code = "ENTRY_LIMIT"
                /\ attendance_records' = attendance_records]_vars
    /\ [](\A i \in EdgeReqs :
            reqs[i].code \in {"ENTRY_LIMIT", "EXIT_LIMIT"} => RowsBy(i) = {})

C6_Witness ==
    \E i \in EdgeReqs :
        /\ reqs[i].code = "ENTRY_LIMIT"
        /\ reqs[i].entryCount = 1 /\ reqs[i].exitCount = 1
        /\ \E e, x \in Rows :
             /\ e < x
             /\ attendance_records[e].user_id = reqs[i].user
             /\ attendance_records[x].user_id = reqs[i].user
             /\ attendance_records[e].record_type = "entrada"
             /\ attendance_records[x].record_type = "salida"
             /\ attendance_records[e].recorded_at
                    < attendance_records[x].recorded_at
             /\ RowDay(e) = reqs[i].today /\ RowDay(x) = reqs[i].today

\* User u is CheckedOut on day d: one 'entrada' and one 'salida' that day.
CheckedOut(u, d) ==
    /\ Cardinality(DayRows(u, d, "entrada")) = 1
    /\ Cardinality(DayRows(u, d, "salida")) = 1

\* C7: CheckedOut is terminal: once a user's day holds one 'entrada' and
\* one 'salida', no step adds an event of that user on that day.
C7_CheckedOutTerminal ==
    [][\A u \in Users, d \in Days :
          CheckedOut(u, d) =>
              \A t \in {"entrada", "salida"} :
                  DayRows(u, d, t)' = DayRows(u, d, t)]_vars

(* ------------------------- token validation --------------------------- *)
\* The string has the prefix and exactly four fields.
WellFormed(c) == c.prefix = "nomia:" /\ Len(c.parts) = 4
\* Its fourth field is the tag of its first three under the real secret.
CorrectlySigned(c) ==
    /\ c.parts[4].key = qrSigningSecret
    /\ c.parts[4].mac = SubSeq(c.parts, 1, 3)
Expiry(c) == c.parts[3]
ValidationRejects ==
    {"INVALID_FORMAT", "INVALID_STRUCTURE", "INVALID_SIGNATURE",
     "QR_EXPIRED", "QR_NOT_FOUND"}

\* C8: the steps run in the order parse, signature, freshness, store
\* lookup, and the answer is the code of the earliest failing step; a
\* request rejected by one of them has read no attendance record and
\* inserted none, and one rejected before the lookup holds no token row.
C8_ValidationOrder ==
    /\ [][Arrives =>
            LET r == Arrived
                c == r.qr_code
            IN  IF ~WellFormed(c)
                THEN r.pc = "done" /\
                     r.code \in {"INVALID_FORMAT", "INVALID_STRUCTURE"}
                ELSE IF ~CorrectlySigned(c)
                THEN r.pc = "done" /\ r.code = "INVALID_SIGNATURE"
                ELSE IF now > Expiry(c)
                THEN r.pc = "done" /\ r.code = "QR_EXPIRED"
                ELSE r.pc = "lookup" /\ r.code = ""]_vars
    /\ [][\A i \in EdgeReqs :
            Leaves(i, "lookup") =>
                IF \E row \in qr_codes :
                      row.code = reqs[i].qr_code /\ row.expires_at > now
                THEN reqs'[i].pc = "read"
                ELSE reqs'[i].pc = "done" /\ reqs'[i].code = "QR_NOT_FOUND"]_vars
    /\ [](\A i \in EdgeReqs :
            reqs[i].code \in ValidationRejects =>
                /\ ~HasRead(i)
                /\ RowsBy(i) = {}
                /\ reqs[i].code # "QR_NOT_FOUND" => reqs[i].qrData = NoRow)

\* A wrongly signed token that had already expired when it was submitted
\* (an earlier request found the same expiry passed) got INVALID_SIGNATURE,
\* and a correctly signed token that was never stored got QR_EXPIRED.
C8_Witness ==
    \E i, j \in EdgeReqs :
        /\ i < j
        /\ reqs[i].code = "QR_EXPIRED"
        /\ reqs[i].qr_code \notin {row.code : row \in qr_codes}
        /\ reqs[j].code = "INVALID_SIGNATURE"
        /\ Expiry(reqs[j].qr_code) <= Expiry(reqs[i].qr_code)

\* C9: a stored token with expiry t passes the freshness check and the
\* store lookup at every clock value now <= t (no storage fault).
C9_FreshUntilExpiry ==
    [][\A i \in EdgeReqs :
          ( /\ Leaves(i, "lookup")
            /\ \E row \in qr_codes :
                  row.code = reqs[i].qr_code /\ now <= row.expires_at )
          => reqs'[i].pc = "read"]_vars

\* C10: a well-formed, correctly signed token submitted at a clock value
\* beyond its expiry is answered QR_EXPIRED at once, and a request answered
\* QR_EXPIRED has committed no event.
C10_ExpiredRejected ==
    /\ [][Arrives =>
            LET r == Arrived
                c == r.qr_code
            IN  (WellFormed(c) /\ CorrectlySigned(c) /\ now > Expiry(c)) =>
                    r.pc = "done" /\ r.code = "QR_EXPIRED"]_vars
    /\ [](\A i \in EdgeReqs : reqs[i].code = "QR_EXPIRED" => RowsBy(i) = {})

\* A stored token rejected as expired one millisecond after its expiry.
C10_Witness ==
    \E i \in EdgeReqs :
        /\ reqs[i].code = "QR_EXPIRED"
        /\ reqs[i].qr_code \in {row.code : row \in qr_codes}
        /\ now = Expiry(reqs[i].qr_code) + 1

(* ----------------------------- provenance ----------------------------- *)
\* No row of the token store holds the string c (rows are never deleted).
Unstored(c) == c \notin {row.code : row \in qr_codes}
\* A well-formed string signed with the real secret that is in no row.
SignedUnstored(c) == WellFormed(c) /\ CorrectlySigned(c) /\ Unstored(c)

\* C11 as stated: every finished request whose token is well formed,
\* correctly signed and in no row of the token store was answered
\* QR_NOT_FOUND.
C11_Original ==
    \A i \in EdgeReqs :
        (reqs[i].pc = "done" /\ SignedUnstored(reqs[i].qr_code))
            => reqs[i].code = "QR_NOT_FOUND"

\* C11 (amended): a well-formed, correctly signed token that is in no row of
\* the token store never leads to an attendance event: submitted beyond its
\* expiry field it is answered QR_EXPIRED, otherwise it reaches the store
\* lookup, which answers QR_NOT_FOUND; the request holds no row, reads no
\* attendance record and inserts none.
C11_ProvenanceClosure ==
    /\ [][Arrives =>
            LET r == Arrived
            IN  SignedUnstored(r.qr_code) =>
                    IF now > Expiry(r.qr_code)
                    THEN r.pc = "done" /\ r.code = "QR_EXPIRED"
                    ELSE r.pc = "lookup"]_vars
    /\ [][\A i \in EdgeReqs :
            ( /\ reqs[i].pc = "lookup" /\ reqs'[i].pc # "lookup"
              /\ Unstored(reqs[i].qr_code) )
            => /\ reqs'[i].pc = "done"
               /\ reqs'[i].code = "QR_NOT_FOUND"
               /\ attendance_records' = attendance_records]_vars
    /\ [](\A i \in EdgeReqs :
            SignedUnstored(reqs[i].qr_code) =>
                /\ reqs[i].pc \in {"lookup", "done"}
                /\ reqs[i].pc = "done" =>
                       reqs[i].code \in {"QR_EXPIRED", "QR_NOT_FOUND"}
                /\ reqs[i].qrData = NoRow
                /\ ~HasRead(i)
                /\ RowsBy(i) = {})

\* A token re-signed with the real secret, never stored, submitted while a
\* stored token with the same nonce was live, and answered QR_NOT_FOUND.
C11_Witness ==
    \E i \in EdgeReqs :
        /\ SignedUnstored(reqs[i].qr_code)
        /\ reqs[i].code = "QR_NOT_FOUND"
        /\ \E row \in qr_codes :
              /\ row.code.parts[1] = reqs[i].qr_code.parts[1]
              /\ row.expires_at > now

(* ------------------------------ issuance ------------------------------ *)
\* C12: the issuance endpoint answers with a token only when its row is in
\* the token store; a call that stored no row answers with an error and no
\* token; and a request whose token is in no row of the store is never
\* accepted: it gets no row, passes no lookup and commits no event.
C12_PersistBeforeReturn ==
    /\ [](issuance.qr_code # NoCode =>
             /\ issuance.status = 200
             /\ \E row \in qr_codes : row.code = issuance.qr_code)
    /\ [][(issuance' # issuance /\ qr_codes' = qr_codes) =>
             /\ issuance'.qr_code = NoCode
             /\ issuance'.status # 200]_vars
    /\ [](\A i \in EdgeReqs :
            Unstored(reqs[i].qr_code) =>
                /\ reqs[i].pc \in {"lookup", "done"}
                /\ reqs[i].code # "OK"
                /\ reqs[i].qrData = NoRow
                /\ RowsBy(i) = {})

\* The last issuance call signed a well-formed token, its insert failed, it
\* answered 500 without a token, and that token was then submitted and
\* answered QR_NOT_FOUND.
C12_Witness ==
    /\ issuance.status = 500 /\ issuance.qr_code = NoCode
    /\ SignedUnstored(issuance.qrCode)
    /\ \E i \in EdgeReqs :
          reqs[i].qr_code = issuance.qrCode /\ reqs[i].code = "QR_NOT_FOUND"

\* The validator's split and signature check accept the string c.
PassesSignature(c) ==
    /\ startsWithNomiaColon(c)
    /\ Len(c.parts) = 4
    /\ verifySignature(<<c.parts[1], c.parts[2], c.parts[3]>>, c.parts[4],
                       qrSigningSecret)

C16_PerLocation ==
    \A row \in IssuedRows : row.created_by = Owner(row.location_id)

(* ----------------------------- redemption ----------------------------- *)
\* The rows of the token store that hold the string c and expire after t.
StoredLive(c, t) == {row \in qr_codes : row.code = c /\ row.expires_at > t}

\* Another user's request with the same token string has ended with success.
RedeemedByOther(j) ==
    \E i \in EdgeReqs :
        /\ reqs[i].user # reqs[j].user
        /\ reqs[i].qr_code = reqs[j].qr_code
        /\ reqs[i].code = "OK"

C15_OncePerUser ==
    \A e, x \in EdgeRows :
        ( /\ e < x
          /\ attendance_records[e].user_id = attendance_records[x].user_id
          /\ attendance_records[e].record_type = "entrada"
          /\ attendance_records[x].record_type = "salida" )
        => attendance_records[e].qr_code_id # attendance_records[x].qr_code_id

(* ------------------------------ failures ------------------------------ *)
\* This step is a storage call that failed.
Fails == faultsLeft' < faultsLeft

C18_ErrorSeparation ==
    [][\A i \in EdgeReqs :
          (reqs[i].pc = "lookup" /\ reqs'[i] # reqs[i] /\ Fails)
              => reqs'[i].code # "QR_NOT_FOUND"]_vars

\* C19: a request whose insert fails in storage is not answered at once:
\* it goes back to reading the day's records for one retry.
C19_RetryOnce ==
    [][\A i \in EdgeReqs :
          (reqs[i].pc = "insert" /\ reqs'[i] # reqs[i] /\ Fails)
              => reqs'[i].pc \in {"read", "insert"}]_vars

(* ------------------------------ rotation ------------------------------ *)
\* C20: at every instant the token shown by the admin page is unexpired:
\* the clock has not passed its expiry field.
C20_LiveOnDisplay ==
    adminQR.qrValue # NoCode => now <= Expiry(adminQR.qrValue)

(* ------------------------------ response ------------------------------ *)
\* C25: the record_type and recorded_at of a success response are those of
\* the attendance row the same request inserted.
C25_ResponseIsRow ==
    \A i \in EdgeReqs :
        reqs[i].code = "OK" =>
            \E k \in RowsBy(i) :
                /\ attendance_records[k].record_type = reqs[i].record_type
                /\ attendance_records[k].recorded_at = reqs[i].recorded_at

\* The page has received the error answer of its last issuance call.
AttemptFailed == ~adminQR.isGenerating /\ issuance.status \notin {0, 200}

\* C21: an error answer leaves the shown token as it was, and after every
\* failed attempt the page calls the issuance endpoint again by itself.
C21_RetryAfterFailure ==
    /\ [][(adminQR.isGenerating /\ ~adminQR'.isGenerating
              /\ issuance.status # 200)
              => adminQR'.qrValue = adminQR.qrValue]_vars
    /\ (AttemptFailed ~> adminQR.isGenerating)

(* ------------------------- effects and frames ------------------------- *)
\* C22: a step that changes the token store is a successful issuance that
\* adds one row, holding the returned token, and keeps every other row as
\* it was; every successful issuance adds a row; and the lookup finds every
\* stored token that has not expired, whatever newer tokens were issued.
C22_IssuanceFrame ==
    /\ [][qr_codes' # qr_codes =>
            \E row \in qr_codes' \ qr_codes :
                /\ qr_codes' = qr_codes \cup {row}
                /\ Unstored(row.code)
                /\ issuance'.status = 200
                /\ issuance'.qr_code = row.code]_vars
    /\ [][(issuance' # issuance /\ issuance'.status = 200) =>
             Cardinality(qr_codes') = Cardinality(qr_codes) + 1]_vars
    /\ [][\A i \in EdgeReqs :
            (Leaves(i, "lookup") /\ StoredLive(reqs[i].qr_code, now) # {})
            => /\ reqs'[i].pc = "read"
               /\ reqs'[i].qrData \in StoredLive(reqs[i].qr_code, now)]_vars

\* A token was redeemed while a newer token of the same location, issued
\* no later than the event, was live as well.
C22_Witness ==
    \E i \in EdgeReqs, k \in Rows, row \in qr_codes :
        /\ reqs[i].code = "OK" /\ k \in RowsBy(i)
        /\ row.id > reqs[i].qrData.id
        /\ row.location_id = reqs[i].qrData.location_id
        /\ row.expires_at - VALIDITY_MS <= attendance_records[k].recorded_at
        /\ attendance_records[k].recorded_at < reqs[i].qrData.expires_at
        /\ attendance_records[k].recorded_at < row.expires_at

\* Request i ends in this step (it arrives rejected, or leaves its program
\* point for "done").
Ends(i) ==
    /\ reqs'[i].pc = "done"
    /\ i \in DOMAIN reqs => reqs[i].pc # "done"

C24_StrictOrder ==
    \A e, x \in EdgeRows :
        ( /\ attendance_records[e].user_id = attendance_records[x].user_id
          /\ RowDay(e) = RowDay(x)
          /\ attendance_records[e].record_type = "entrada"
          /\ attendance_records[x].record_type = "salida" )
        => attendance_records[e].recorded_at < attendance_records[x].recorded_at

\* C29: a four-field token of the issuance endpoint scanned on a page
\* passes the page's format gate (the request is not ended at arrival).
C29_PageAcceptsIssued ==
    [][Arrives =>
          LET r == Arrived
          IN  (r.via \in Pages /\ r.qr_code \in {row.code : row \in IssuedRows})
                  => r.pc # "done"]_vars

\* C30: no event of the validation endpoint has a recorded_at later than
\* the expiry of the token row it references.
C30_CommitWithinWindow ==
    \A k \in EdgeRows :
        \A row \in qr_codes :
            row.id = attendance_records[k].qr_code_id =>
                attendance_records[k].recorded_at <= row.expires_at

(* ---------------------------- days and users -------------------------- *)
\* C26: a request that reads the records on a day on which its user has no
\* event decides 'entrada' with both counts 0, whatever the user's earlier
\* days hold, and its insert commits that 'entrada'; the counts a request
\* holds never exceed its user's events of the day it read.
C26_DailyReset ==
    /\ [][\A i \in EdgeReqs :
            ( /\ Leaves(i, "read")
              /\ DayRows(reqs[i].user, Today(now), "entrada") = {}
              /\ DayRows(reqs[i].user, Today(now), "salida") = {} )
            => /\ reqs'[i].pc = "insert"
               /\ reqs'[i].recordType = "entrada"
               /\ reqs'[i].entryCount = 0 /\ reqs'[i].exitCount = 0]_vars
    /\ [][\A i \in EdgeReqs :
            Leaves(i, "insert") =>
                /\ reqs'[i].code = "OK"
                /\ Len(attendance_records') = Len(attendance_records) + 1
                /\ attendance_records'[Len(attendance_records')].record_type
                       = reqs[i].recordType
                /\ attendance_records'[Len(attendance_records')].user_id
                       = reqs[i].user]_vars
    /\ [](\A i \in EdgeReqs :
            HasRead(i) =>
                /\ reqs[i].entryCount <=
                       Cardinality(DayRows(reqs[i].user, reqs[i].today, "entrada"))
                /\ reqs[i].exitCount <=
                       Cardinality(DayRows(reqs[i].user, reqs[i].today, "salida")))

\* A user with an 'entrada' and a 'salida' on day 0 scanned on day 1 and
\* got an 'entrada' committed on day 1.
C26_Witness ==
    \E i \in EdgeReqs :
        /\ reqs[i].code = "OK" /\ reqs[i].today = 1
        /\ reqs[i].recordType = "entrada"
        /\ CheckedOut(reqs[i].user, 0)
        /\ \E k \in RowsBy(i) :
              RowDay(k) = 1 /\ attendance_records[k].record_type = "entrada"

\* The events of user u in store order.
OwnRows(u) == SelectSeq(attendance_records, LAMBDA r : r.user_id = u)
\* The record types that can come last among u's events from start on.
OwnLast(u, start) ==
    LET K == {k \in Rows : /\ attendance_records[k].user_id = u
                           /\ attendance_records[k].recorded_at >= start}
    IN  IF K = {} THEN {"none"}
        ELSE {attendance_records[k].record_type : k \in LastCandidates(K)}

\* C27: a step of a request changes no request and no event of another
\* user, and what a request decides when it reads the records is fixed by
\* its own user's events of the day: the counts are that user's counts, the
\* kind is 'entrada' unless that user's last event is an 'entrada', and the
\* limits are applied to these.
C27_CrossUser ==
    /\ [][\A i \in DOMAIN reqs' :
            (i \notin DOMAIN reqs \/ reqs'[i] # reqs[i]) =>
                /\ \A j \in DOMAIN reqs :
                      reqs[j].user # reqs'[i].user => reqs'[j] = reqs[j]
                /\ \A u \in Users :
                      u # reqs'[i].user => OwnRows(u)' = OwnRows(u)]_vars
    /\ [][\A j \in EdgeReqs :
            Leaves(j, "read") =>
                LET u == reqs[j].user
                    d == Today(now)
                    e == Cardinality(DayRows(u, d, "entrada"))
                    x == Cardinality(DayRows(u, d, "salida"))
                IN  /\ reqs'[j].entryCount = e /\ reqs'[j].exitCount = x
                    /\ \E last \in OwnLast(u, DayStart(d)) :
                          LET t == IF last = "entrada" THEN "salida"
                                   ELSE "entrada"
                          IN  /\ reqs'[j].recordType = t
                              /\ IF t = "entrada" /\ e >= 1
                                 THEN reqs'[j].code = "ENTRY_LIMIT"
                                 ELSE IF t = "salida" /\ x >= 1
                                 THEN reqs'[j].code = "EXIT_LIMIT"
                                 ELSE reqs'[j].pc = "insert"]_vars

\* One user checked in and out, and then another user's first scan of the
\* day, counting no event, committed an 'entrada'.
C27_Witness ==
    \E i \in EdgeReqs :
        /\ reqs[i].code = "OK" /\ reqs[i].recordType = "entrada"
        /\ reqs[i].entryCount = 0 /\ reqs[i].exitCount = 0
        /\ \E a \in Users :
              /\ a # reqs[i].user
              /\ CheckedOut(a, reqs[i].today)
              /\ \A k \in RowsBy(i), m \in Rows :
                    attendance_records[m].user_id = a => m < k

(* ----------------------------- audit trail ---------------------------- *)
\* C28: every step keeps every attendance event at its place, unchanged.
C28_AuditMonotone ==
    [][\A k \in Rows :
          /\ k \in DOMAIN attendance_records'
          /\ attendance_records'[k] = attendance_records[k]]_vars

\* The endpoint and a page have each committed an event of the same user,
\* the first of them still in place.
C28_Witness ==
    /\ Len(attendance_records) >= 2
    /\ attendance_records[1].user_id = attendance_records[2].user_id
    /\ \E k \in Rows : attendance_records[k].req \in EdgeReqs
    /\ \E k \in Rows : attendance_records[k].req \notin EdgeReqs

====
